---- MODULE Spec2Model ----
(***************************************************************************)
(* Model of the Scene class of src/lib/scene/index.ts (the complete        *)
(* version, lines 317-725): the per-frame tick, the pointer and keyboard   *)
(* handlers, addForce / reset / clear / destroy, and the environment the   *)
(* scene registers itself with (listeners, animation frames, navigation).  *)
(*                                                                         *)
(* Numbers.  Positions and velocities are JavaScript numbers.  The model   *)
(* keeps them as integers: a finite number v is the one-element sequence   *)
(* <<v>> and NaN is the empty sequence <<>>, so that NaN propagates        *)
(* through arithmetic and fails every comparison, as in JavaScript.        *)
(* Quotients are truncated toward zero and Math.sqrt is rounded up to the  *)
(* next integer, which keeps every comparison "distance <= n" against an   *)
(* integer n exact.  Times are in milliseconds; the division by 1000 of    *)
(* line 409 is carried out when a product with delta is formed.            *)
(*                                                                         *)
(* Object references.  An optional value (T | null) is a sequence of       *)
(* length 0 or 1.  mouseCurrent.force is a reference to a Force object:    *)
(* it is kept as the index of that object in this.forces while the object  *)
(* is in the array, and as a detached copy of the object once clear() has  *)
(* replaced the array.                                                     *)
(***************************************************************************)
EXTENDS Integers, Sequences, FiniteSets, TLC

VARIABLES
    pixelRatio,     \* window.devicePixelRatio
    canvas,         \* canvas.width, canvas.height
    cursor,         \* canvas.style.cursor
    levelId,        \* level.id
    previousTime,   \* Scene.previousTime (ms), optional
    frame,          \* Scene.frame, optional handle
    center,         \* Scene.center
    mouseStart,     \* Scene.mouseStart, optional
    mouseCurrent,   \* Scene.mouseCurrent, optional
    hit,            \* Scene.hit
    forces,         \* Scene.forces
    ball,           \* Scene.ball
    listeners,      \* environment listeners registered by the scene
    pending,        \* animation-frame callbacks requested and not yet run or cancelled
    nextHandle,     \* next handle requestAnimationFrame returns
    emitted,        \* 'forces' events dispatched by the last operation
    alerts,         \* messages shown with alert()
    gotoCalls,      \* targets passed to goto()
    navigation,     \* state of the promise goto() returned
    last            \* the last operation and its arguments

vars == <<pixelRatio, canvas, cursor, levelId, previousTime, frame, center,
          mouseStart, mouseCurrent, hit, forces, ball, listeners,
          pending, nextHandle, emitted, alerts, gotoCalls, navigation, last>>

---------------------------------------------------------------------------
(* Bounds of the model *)

MaxTicks == 3
MaxForces == 3
MaxPan == 20
MaxCoord == 400

(* Program constants *)

FORCE_RADIUS == 30
MAX_DISTANCE == 800
MAX_VELOCITY == 500
FORCE_STRENGTH == 100000000
FORCE_CLAMP == 5000

(* Inputs of the environment *)

TickStep == 500
Deltas == {TickStep}
MaxTime == TickStep * MaxTicks
PixelRatios == {1}
CanvasSizes == {[width |-> 1600, height |-> 800]}
Buttons == {0, 2}
Keys == {" ", "a"}
Directions == {1, -1}
DownOffsets == {<<0, 400>>, <<600, 400>>, <<1000, 400>>}
MoveOffsets == {<<616, 412>>}
UpOffsets == DownOffsets \cup MoveOffsets
AddPositions == {<<970, 370>>}

(* The level the scene is constructed with *)

NumLevels == 2
LevelBall == [x |-> 200, y |-> 0, radius |-> 10]
LevelHole == [x |-> 331, y |-> -327, radius |-> 20]
LevelWalls == <<[x |-> 455, y |-> -219, width |-> 20, height |-> 200],
                [x |-> 344, y |-> -416, width |-> 100, height |-> 20]>>
DefaultGravity == <<[x |-> 0, y |-> 300], [x |-> 400, y |-> 300]>>
DefaultAntigravity == <<[x |-> -200, y |-> 0]>>

---------------------------------------------------------------------------
(* JavaScript numbers *)

Num(v) == <<v>>
NaN == <<>>
isFinite(a) == a # NaN

TruncDiv(a, b) == IF a >= 0 THEN a \div b ELSE -((-a) \div b)

add(a, b) == IF a = NaN \/ b = NaN THEN NaN ELSE Num(a[1] + b[1])
sub(a, b) == IF a = NaN \/ b = NaN THEN NaN ELSE Num(a[1] - b[1])
mul(a, b) == IF a = NaN \/ b = NaN THEN NaN ELSE Num(a[1] * b[1])
neg(a) == IF a = NaN THEN NaN ELSE Num(-a[1])
leq(a, b) == a # NaN /\ b # NaN /\ a[1] <= b[1]

\* a * delta, with delta given in milliseconds
timesDelta(a, delta) == IF a = NaN THEN NaN ELSE Num(TruncDiv(a[1] * delta, 1000))

RECURSIVE newton(_, _)
newton(n, x) ==
    LET y == (x + n \div x) \div 2
    IN  IF y >= x THEN x ELSE newton(n, y)

\* Math.sqrt of a non-negative integer, rounded up
sqrtInt(n) ==
    IF n = 0 THEN 0
    ELSE LET f == newton(n, n) IN IF f * f = n THEN f ELSE f + 1

sqrt(a) == IF a = NaN THEN NaN ELSE Num(sqrtInt(a[1]))

Point(x, y) == [x |-> Num(x), y |-> Num(y)]

---------------------------------------------------------------------------
(* Helpers the scene imports: normalize/point, normalize/shape, distance,  *)
(* distance/squared, split/hypotenuse, clamp, collision                    *)

\* screen.x = width / 2 + world.x + center.x
\* screen.y = height / 2 - world.y - center.y
normalizePoint(p, cv, c) ==
    [x |-> add(add(Num(cv.width \div 2), p.x), Num(c.x)),
     y |-> sub(sub(Num(cv.height \div 2), p.y), Num(c.y))]

\* a rectangle keeps its size; its top-left corner is normalized
normalizeShape(w, cv, c) ==
    [x |-> cv.width \div 2 + w.x + c.x,
     y |-> cv.height \div 2 - w.y - c.y,
     width |-> w.width, height |-> w.height]

distanceSquared(a, b) ==
    add(mul(sub(a.x, b.x), sub(a.x, b.x)), mul(sub(a.y, b.y), sub(a.y, b.y)))

distance(a, b) == sqrt(distanceSquared(a, b))

\* Math.min(max, Math.max(min, value))
clamp(min, max, value) ==
    IF value = NaN THEN NaN
    ELSE IF value[1] < min THEN Num(min)
    ELSE IF value[1] > max THEN Num(max)
    ELSE value

\* (b - a) / dist * magnitude, per component.  The callers pass
\* dist = distance(a, b), so dist = 0 means a = b and the quotient is 0 / 0.
splitHypotenuse(a, b, dist, magnitude) ==
    LET part(d) ==
            IF d = NaN \/ dist = NaN \/ magnitude = NaN THEN NaN
            ELSE IF dist[1] = 0 THEN NaN
            ELSE Num(TruncDiv(d[1] * magnitude[1], dist[1]))
    IN  [x |-> part(sub(b.x, a.x)), y |-> part(sub(b.y, a.y))]

clampInt(lo, hi, v) == IF v < lo THEN lo ELSE IF v > hi THEN hi ELSE v

\* The contact of a circle with a rectangle: no contact (<<>>) or the
\* direction from the nearest point of the rectangle to the circle's centre,
\* which stands for the angle Math.atan2 gives it (atan2(0, 0) = 0, the
\* direction (1, 0)).
collision(circle, radius, rect) ==
    IF circle.x = NaN \/ circle.y = NaN THEN <<>>
    ELSE LET cx == circle.x[1]
             cy == circle.y[1]
             nx == clampInt(rect.x, rect.x + rect.width, cx)
             ny == clampInt(rect.y, rect.y + rect.height, cy)
             dx == cx - nx
             dy == cy - ny
         IN  IF /\ dx <= radius /\ -dx <= radius /\ dy <= radius /\ -dy <= radius
                /\ dx * dx + dy * dy <= radius * radius
             THEN IF dx = 0 /\ dy = 0 THEN <<[x |-> 1, y |-> 0]>>
                  ELSE <<[x |-> dx, y |-> dy]>>
             ELSE <<>>

---------------------------------------------------------------------------
(* The scene *)

hole == LevelHole
walls == LevelWalls

ballPoint == [x |-> ball.x, y |-> ball.y]
forcePoint(f) == Point(f.x, f.y)

\* Math.floor(offset * scale)
pointer(o) == [x |-> o[1] * pixelRatio, y |-> o[2] * pixelRatio]
mousePoint(m) == Point(m.x, m.y)

mouseOnForceIn(m, f, c) ==
    leq(distance(normalizePoint(forcePoint(f), canvas, c), mousePoint(m)),
        Num(FORCE_RADIUS))

mouseOnForce(m, f) == mouseOnForceIn(m, f, center)

cursorFor(m, fs, c) ==
    IF \E i \in 1..Len(fs) : mouseOnForceIn(m, fs[i], c) THEN "move" ELSE ""

\* mutant: the two counters exchanged
forceCounts_Swapped(fs) ==
    <<Cardinality({i \in 1..Len(fs) : fs[i].direction # 1}),
      Cardinality({i \in 1..Len(fs) : fs[i].direction = 1})>>

\* the two counts dispatchForces reports
forceCounts(fs) ==
    <<Cardinality({i \in 1..Len(fs) : fs[i].direction = 1}),
      Cardinality({i \in 1..Len(fs) : fs[i].direction # 1})>>

dispatchForces(fs) == <<forceCounts(fs)>>

\* mutant: a reset that does not take the ball's position from the level
resetBall_Origin ==
    [x |-> Num(0), y |-> Num(0), radius |-> LevelBall.radius,
     vx |-> Num(0), vy |-> Num(0)]

resetBall ==
    [x |-> Num(LevelBall.x), y |-> Num(LevelBall.y), radius |-> LevelBall.radius,
     vx |-> Num(0), vy |-> Num(0)]

clearForces ==
    [i \in 1..(Len(DefaultGravity) + Len(DefaultAntigravity)) |->
        IF i <= Len(DefaultGravity)
        THEN [x |-> DefaultGravity[i].x, y |-> DefaultGravity[i].y, direction |-> 1]
        ELSE [x |-> DefaultAntigravity[i - Len(DefaultGravity)].x,
              y |-> DefaultAntigravity[i - Len(DefaultGravity)].y,
              direction |-> 1]]

\* references to Force objects
NoObject == [x |-> 0, y |-> 0, direction |-> 0]
liveRef(i) == [idx |-> i, obj |-> NoObject]
deadRef(f) == [idx |-> 0, obj |-> f]
deref(r) == IF r.idx > 0 THEN forces[r.idx] ELSE r.obj

---------------------------------------------------------------------------
(* tick *)

\* lines 439-445: heading v = atan2(-vy, vx), bounceAngle = 2 * angle - v + PI,
\* new velocity (cos(bounceAngle), -sin(bounceAngle)) * speed.  With the angle
\* given by its direction n this is
\*   vx' = -cos(2 angle) * vx + sin(2 angle) * vy
\*   vy' =  sin(2 angle) * vx + cos(2 angle) * vy
\* where cos(2 angle) = (n.x^2 - n.y^2) / |n|^2, sin(2 angle) = 2 n.x n.y / |n|^2.
bounce(b, n) ==
    IF b.vx = NaN \/ b.vy = NaN THEN [b EXCEPT !.vx = NaN, !.vy = NaN]
    ELSE LET nn == n.x * n.x + n.y * n.y
             c2 == n.x * n.x - n.y * n.y
             s2 == 2 * n.x * n.y
         IN  [b EXCEPT !.vx = Num(TruncDiv(-c2 * b.vx[1] + s2 * b.vy[1], nn)),
                       !.vy = Num(TruncDiv(s2 * b.vx[1] + c2 * b.vy[1], nn))]

RECURSIVE bounceWalls(_, _, _, _)
bounceWalls(b, ws, cv, c) ==
    IF ws = <<>> THEN b
    ELSE LET angle == collision(normalizePoint([x |-> b.x, y |-> b.y], cv, c),
                                b.radius, normalizeShape(Head(ws), cv, c))
         IN  bounceWalls(IF angle = <<>> THEN b ELSE bounce(b, angle[1]),
                         Tail(ws), cv, c)

\* mutant: the quotient handed on without the clamp
forceMagnitude_Unclamped(direction, rSquared) ==
    IF rSquared = NaN THEN NaN
    ELSE IF rSquared[1] = 0 THEN Num(direction * FORCE_STRENGTH)
    ELSE Num(TruncDiv(direction * FORCE_STRENGTH, rSquared[1]))

\* clamp(-5000, 5000, (force.direction * 100000000) / rSquared); a zero
\* rSquared gives an infinite quotient of the force's sign, which any value
\* outside the clamp range stands for
forceMagnitude(direction, rSquared) ==
    clamp(-FORCE_CLAMP, FORCE_CLAMP,
          IF rSquared = NaN THEN NaN
          ELSE IF rSquared[1] = 0 THEN Num(direction * FORCE_STRENGTH)
          ELSE Num(TruncDiv(direction * FORCE_STRENGTH, rSquared[1])))

\* mutant: the force normalized without the pan
accelerate_ForceUnpanned(b, f, delta, cv, c) ==
    LET nb == normalizePoint([x |-> b.x, y |-> b.y], cv, c)
        nf == normalizePoint(forcePoint(f), cv, [x |-> 0, y |-> 0])
        rSquared == distanceSquared(nb, nf)
        a == splitHypotenuse(nf, nb, sqrt(rSquared),
                             forceMagnitude(f.direction, rSquared))
    IN  [b EXCEPT !.vx = add(@, timesDelta(a.x, delta)),
                  !.vy = add(@, timesDelta(a.y, delta))]

\* lines 450-463
accelerate(b, f, delta, cv, c) ==
    LET nb == normalizePoint([x |-> b.x, y |-> b.y], cv, c)
        nf == normalizePoint(forcePoint(f), cv, c)
        rSquared == distanceSquared(nb, nf)
        a == splitHypotenuse(nf, nb, sqrt(rSquared),
                             forceMagnitude(f.direction, rSquared))
    IN  [b EXCEPT !.vx = add(@, timesDelta(a.x, delta)),
                  !.vy = add(@, timesDelta(a.y, delta))]

RECURSIVE applyForces(_, _, _, _, _)
applyForces(b, fs, delta, cv, c) ==
    IF fs = <<>> THEN b
    ELSE applyForces(accelerate(b, Head(fs), delta, cv, c), Tail(fs), delta, cv, c)

integrate(b, delta) ==
    [b EXCEPT !.x = add(@, timesDelta(b.vx, delta)),
              !.y = sub(@, timesDelta(b.vy, delta))]

\* currentTime - (this.previousTime || currentTime)
deltaOf(currentTime) ==
    IF previousTime = <<>> \/ previousTime[1] = 0 THEN 0
    ELSE currentTime - previousTime[1]

\* mutant: a win test that excludes the threshold itself
inHole_Strict ==
    leq(distance(normalizePoint(ballPoint, canvas, center),
                 normalizePoint(Point(hole.x, hole.y), canvas, center)),
        Num(hole.radius - ball.radius - 1))

\* lines 415-420
inHole ==
    leq(distance(normalizePoint(ballPoint, canvas, center),
                 normalizePoint(Point(hole.x, hole.y), canvas, center)),
        Num(hole.radius - ball.radius))

\* mutant: a target that does not test for the last level
gotoTarget_AlwaysNext == <<"/levels", levelId + 1>>

\* lines 424-427
gotoTarget ==
    IF levelId = NumLevels THEN <<"/levels">> ELSE <<"/levels", levelId + 1>>

\* mutant: the force loop ahead of the wall loop
motion_ForcesFirst(b, delta) ==
    bounceWalls(applyForces(b, forces, delta, canvas, center),
                walls, canvas, center)

\* lines 432-464: the ball after the wall loop and then the force loop
motion(b, delta) ==
    applyForces(bounceWalls(b, walls, canvas, center),
                forces, delta, canvas, center)

\* mutant: a tick that simulates without testing the mode
step_NoModeTest(delta) == integrate(motion(ball, delta), delta)

\* lines 414-468: the ball after a tick that does not declare the win
step(delta) == integrate(IF hit THEN motion(ball, delta) ELSE ball, delta)

\* mutant: a tick that requests a frame twice
requestFrame_Twice(h) == (pending \ {h}) \cup {nextHandle, nextHandle + 1}

\* line 534: the callbacks pending once the tick that ran as h has requested
\* the next frame
requestFrame(h) == (pending \ {h}) \cup {nextHandle}

tick(h, currentTime) ==
    /\ h \in pending
    /\ currentTime <= MaxTime
    /\ previousTime' = <<currentTime>>
    /\ IF hit /\ inHole
       THEN /\ frame' = <<>>
            /\ pending' = pending \ {h}
            /\ alerts' = Append(alerts, "Congratulations!")
            /\ gotoCalls' = Append(gotoCalls, gotoTarget)
            /\ navigation' = "pending"
            /\ UNCHANGED <<ball, nextHandle>>
       ELSE /\ ball' = step(deltaOf(currentTime))
            /\ frame' = <<nextHandle>>
            /\ pending' = requestFrame(h)
            /\ nextHandle' = nextHandle + 1
            /\ UNCHANGED <<alerts, gotoCalls, navigation>>
    /\ emitted' = <<>>
    /\ last' = <<"tick">>
    /\ UNCHANGED <<pixelRatio, canvas, cursor, levelId, center, mouseStart,
                   mouseCurrent, hit, forces, listeners>>

\* the promise goto() returned settles
gotoFulfilled ==
    /\ navigation = "pending"
    /\ navigation' = "fulfilled"
    /\ emitted' = <<>>
    /\ last' = <<"gotoFulfilled">>
    /\ UNCHANGED <<pixelRatio, canvas, cursor, levelId, previousTime, frame,
                   center, mouseStart, mouseCurrent, hit, forces, ball,
                   listeners, pending, nextHandle, alerts, gotoCalls>>

\* .catch(({ message }) => alert(message))
gotoRejected ==
    /\ navigation = "pending"
    /\ navigation' = "rejected"
    /\ alerts' = Append(alerts, "message")
    /\ emitted' = <<>>
    /\ last' = <<"gotoRejected">>
    /\ UNCHANGED <<pixelRatio, canvas, cursor, levelId, previousTime, frame,
                   center, mouseStart, mouseCurrent, hit, forces, ball,
                   listeners, pending, nextHandle, gotoCalls>>

---------------------------------------------------------------------------
(* Pointer and keyboard handlers *)

Listener(target, type) == <<target, type>>

findForce(m) ==
    LET on == {i \in 1..Len(forces) : mouseOnForce(m, forces[i])}
    IN  IF on = {} THEN <<>>
        ELSE <<liveRef(CHOOSE i \in on : \A j \in on : i <= j)>>

down(o, button) ==
    /\ Listener("canvas", "mousedown") \in listeners
    /\ mouseStart' = <<[x |-> pointer(o).x, y |-> pointer(o).y, button |-> button]>>
    /\ mouseCurrent' = <<[x |-> pointer(o).x, y |-> pointer(o).y,
                          force |-> findForce(pointer(o))]>>
    /\ emitted' = <<>>
    /\ last' = <<"down">>
    /\ UNCHANGED <<pixelRatio, canvas, cursor, levelId, previousTime, frame,
                   center, hit, forces, ball, listeners, pending,
                   nextHandle, alerts, gotoCalls, navigation>>

inBox(p, bound) ==
    /\ p.x <= bound /\ -p.x <= bound
    /\ p.y <= bound /\ -p.y <= bound

\* lines 565-580: the force the gesture holds is dragged, or the view is panned
dragged(m) ==
    LET mc == mouseCurrent[1]
        dx == m.x - mc.x
        dy == m.y - mc.y
        moved(f) == [f EXCEPT !.x = @ + dx, !.y = @ - dy]
    IN  IF mc.force # <<>>
        THEN IF mc.force[1].idx > 0
             THEN [forces |-> [forces EXCEPT ![mc.force[1].idx] = moved(@)],
                   center |-> center,
                   force |-> mc.force]
             ELSE [forces |-> forces,
                   center |-> center,
                   force |-> <<deadRef(moved(mc.force[1].obj))>>]
        ELSE [forces |-> forces,
              center |-> [x |-> center.x + dx, y |-> center.y - dy],
              force |-> mc.force]

move(o) ==
    /\ Listener("canvas", "mousemove") \in listeners
    /\ IF mouseStart # <<>> /\ mouseStart[1].button = 0 /\ mouseCurrent # <<>>
       THEN LET d == dragged(pointer(o))
            IN  /\ \A i \in 1..Len(d.forces) : inBox(d.forces[i], MaxCoord)
                /\ d.force # <<>> => inBox(d.force[1].obj, MaxCoord)
                /\ inBox(d.center, MaxPan)
                /\ forces' = d.forces
                /\ center' = d.center
                /\ mouseCurrent' = <<[x |-> pointer(o).x, y |-> pointer(o).y,
                                      force |-> d.force]>>
       ELSE UNCHANGED <<forces, center, mouseCurrent>>
    /\ cursor' = cursorFor(pointer(o), forces', center')
    /\ emitted' = <<>>
    /\ last' = <<"move">>
    /\ UNCHANGED <<pixelRatio, canvas, levelId, previousTime, frame, mouseStart,
                   hit, ball, listeners, pending, nextHandle, alerts,
                   gotoCalls, navigation>>

\* Math.min(distanceFactor / MAX_DISTANCE, 1) * MAX_VELOCITY
shotMagnitude(distanceFactor) ==
    IF distanceFactor = NaN THEN NaN
    ELSE IF distanceFactor[1] >= MAX_DISTANCE THEN Num(MAX_VELOCITY)
    ELSE Num(TruncDiv(distanceFactor[1] * MAX_VELOCITY, MAX_DISTANCE))

\* lines 604-612
shotVelocity(m) ==
    LET normalizedBall == normalizePoint(ballPoint, canvas, center)
        distanceFactor == distance(mousePoint(m), normalizedBall)
    IN  splitHypotenuse(mousePoint(m), normalizedBall, distanceFactor,
                        shotMagnitude(distanceFactor))

\* mutant: a shot that does not test the button
isShot_AnyButton(m) ==
    /\ m.x = mouseStart[1].x
    /\ m.y = mouseStart[1].y

\* lines 595-599
isShot(m) ==
    /\ mouseStart[1].button = 0
    /\ m.x = mouseStart[1].x
    /\ m.y = mouseStart[1].y

\* mutant: a removal that does not test where the pointer is released
isRemoval_Anywhere(m) ==
    /\ mouseStart[1].button = 2
    /\ mouseCurrent # <<>>
    /\ mouseCurrent[1].force # <<>>

\* lines 617-619
isRemoval(m) ==
    /\ mouseStart[1].button = 2
    /\ mouseCurrent # <<>>
    /\ mouseCurrent[1].force # <<>>
    /\ mouseOnForce(m, deref(mouseCurrent[1].force[1]))

\* this.forces.splice(index, 1)
splice(fs, index) == [i \in 1..(Len(fs) - 1) |-> IF i < index THEN fs[i] ELSE fs[i + 1]]

\* mutant: the early return of pointer-up without the hit test
upIgnored_NoModeGate == mouseStart = <<>>

\* line 586: if (this.hit || !this.mouseStart) return
upIgnored == hit \/ mouseStart = <<>>

up(o) ==
    /\ Listener("canvas", "mouseup") \in listeners
    /\ IF upIgnored
       THEN UNCHANGED <<hit, ball, forces, cursor, mouseStart, mouseCurrent>>
            /\ emitted' = <<>>
       ELSE /\ IF isShot(pointer(o))
               THEN /\ hit' = TRUE
                    /\ ball' = [ball EXCEPT !.vx = shotVelocity(pointer(o)).x,
                                            !.vy = shotVelocity(pointer(o)).y]
                    /\ emitted' = <<>>
                    /\ UNCHANGED <<forces, cursor>>
               ELSE IF isRemoval(pointer(o)) /\ mouseCurrent[1].force[1].idx > 0
               THEN /\ forces' = splice(forces, mouseCurrent[1].force[1].idx)
                    /\ emitted' = dispatchForces(forces')
                    /\ cursor' = cursorFor(pointer(o), forces', center)
                    /\ UNCHANGED <<hit, ball>>
               ELSE /\ emitted' = <<>>
                    /\ UNCHANGED <<hit, ball, forces, cursor>>
            /\ mouseStart' = <<>>
            /\ mouseCurrent' = <<>>
    /\ last' = <<"up", o>>
    /\ UNCHANGED <<pixelRatio, canvas, levelId, previousTime, frame, center,
                   listeners, pending, nextHandle, alerts, gotoCalls,
                   navigation>>

rightClick ==
    /\ Listener("canvas", "contextmenu") \in listeners
    /\ emitted' = <<>>
    /\ last' = <<"rightClick">>
    /\ UNCHANGED <<pixelRatio, canvas, cursor, levelId, previousTime, frame,
                   center, mouseStart, mouseCurrent, hit, forces, ball,
                   listeners, pending, nextHandle, alerts, gotoCalls,
                   navigation>>

reset ==
    /\ hit' = FALSE
    /\ ball' = resetBall
    /\ emitted' = <<>>
    /\ last' = <<"reset">>
    /\ UNCHANGED <<pixelRatio, canvas, cursor, levelId, previousTime, frame,
                   center, mouseStart, mouseCurrent, forces, listeners,
                   pending, nextHandle, alerts, gotoCalls, navigation>>

key(k) ==
    /\ Listener("document", "keydown") \in listeners
    /\ IF k = " "
       THEN hit' = FALSE /\ ball' = resetBall
       ELSE UNCHANGED <<hit, ball>>
    /\ emitted' = <<>>
    /\ last' = <<"key", k>>
    /\ UNCHANGED <<pixelRatio, canvas, cursor, levelId, previousTime, frame,
                   center, mouseStart, mouseCurrent, forces, listeners,
                   pending, nextHandle, alerts, gotoCalls, navigation>>

resize(size) ==
    /\ Listener("window", "resize") \in listeners
    /\ canvas' = size
    /\ emitted' = <<>>
    /\ last' = <<"resize">>
    /\ UNCHANGED <<pixelRatio, cursor, levelId, previousTime, frame, center,
                   mouseStart, mouseCurrent, hit, forces, ball, listeners,
                   pending, nextHandle, alerts, gotoCalls, navigation>>

---------------------------------------------------------------------------
(* The scene's public operations *)

\* mutant: a conversion that forgets the pan
newForce_NoPan(p, direction) ==
    [x |-> p[1] * pixelRatio + FORCE_RADIUS - canvas.width \div 2,
     y |-> -p[2] * pixelRatio - FORCE_RADIUS + canvas.height \div 2,
     direction |-> direction]

\* lines 672-677: the force addForce pushes
newForce(p, direction) ==
    [x |-> p[1] * pixelRatio + FORCE_RADIUS - canvas.width \div 2 - center.x,
     y |-> -p[2] * pixelRatio - FORCE_RADIUS + canvas.height \div 2 - center.y,
     direction |-> direction]

addForce(p, direction) ==
    /\ Len(forces) < MaxForces
    /\ forces' = Append(forces, newForce(p, direction))
    /\ emitted' = dispatchForces(forces')
    /\ cursor' = "move"
    /\ last' = <<"addForce", p, direction>>
    /\ UNCHANGED <<pixelRatio, canvas, levelId, previousTime, frame, center,
                   mouseStart, mouseCurrent, hit, ball, listeners,
                   pending, nextHandle, alerts, gotoCalls, navigation>>

\* a reference into the array clear() replaces keeps the old object alive
detached(mc) ==
    IF mc # <<>> /\ mc[1].force # <<>> /\ mc[1].force[1].idx > 0
    THEN <<[mc[1] EXCEPT !.force = <<deadRef(forces[mc[1].force[1].idx])>>]>>
    ELSE mc

clear ==
    /\ hit' = FALSE
    /\ ball' = resetBall
    /\ forces' = clearForces
    /\ mouseCurrent' = detached(mouseCurrent)
    /\ emitted' = dispatchForces(forces')
    /\ last' = <<"clear">>
    /\ UNCHANGED <<pixelRatio, canvas, cursor, levelId, previousTime, frame,
                   center, mouseStart, listeners, pending,
                   nextHandle, alerts, gotoCalls, navigation>>

\* the environment listeners destroy() removes
removedListeners ==
    {Listener("window", "resize"), Listener("document", "keydown"),
     Listener("canvas", "mousedown"), Listener("canvas", "mousemove"),
     Listener("canvas", "mouseup")}

\* removeAllEventListeners() empties the observer list of the scene's
\* EventDispatcher; the model records the events dispatched (emitted), not
\* their delivery, and keeps no observer list.
\* mutant: destroy() that leaves the requested frame pending
cancelFrame_Never == pending

\* line 723: if (this.frame) cancelAnimationFrame(this.frame)
cancelFrame == IF frame # <<>> THEN pending \ {frame[1]} ELSE pending

destroy ==
    /\ listeners' = listeners \ removedListeners
    /\ pending' = cancelFrame
    /\ emitted' = <<>>
    /\ last' = <<"destroy">>
    /\ UNCHANGED <<pixelRatio, canvas, cursor, levelId, previousTime, frame,
                   center, mouseStart, mouseCurrent, hit, forces, ball,
                   nextHandle, alerts, gotoCalls, navigation>>

---------------------------------------------------------------------------
(* The state after construction, lines 371-401 *)

registeredListeners ==
    {Listener("window", "resize"), Listener("document", "keydown"),
     Listener("canvas", "mousedown"), Listener("canvas", "mousemove"),
     Listener("canvas", "mouseup"), Listener("canvas", "contextmenu")}

Init ==
    /\ pixelRatio \in PixelRatios
    /\ canvas \in CanvasSizes
    /\ cursor = ""
    /\ levelId = 1
    /\ previousTime = <<>>
    /\ frame = <<1>>
    /\ center = [x |-> 0, y |-> 0]
    /\ mouseStart = <<>>
    /\ mouseCurrent = <<>>
    /\ hit = FALSE
    /\ forces = clearForces
    /\ ball = resetBall
    /\ listeners = registeredListeners
    /\ pending = {1}
    /\ nextHandle = 2
    /\ emitted = dispatchForces(clearForces)
    /\ alerts = <<>>
    /\ gotoCalls = <<>>
    /\ navigation = "none"
    /\ last = <<"constructor">>

Next ==
    \/ \E h \in pending, d \in Deltas :
          tick(h, IF previousTime = <<>> THEN d ELSE previousTime[1] + d)
    \/ gotoFulfilled
    \/ gotoRejected
    \/ \E o \in DownOffsets, b \in Buttons : down(o, b)
    \/ \E o \in MoveOffsets : move(o)
    \/ \E o \in UpOffsets : up(o)
    \/ rightClick
    \/ \E k \in Keys : key(k)
    \/ \E size \in CanvasSizes : resize(size)
    \/ \E p \in AddPositions, d \in Directions : addForce(p, d)
    \/ reset
    \/ clear
    \/ destroy

Spec == Init /\ [][Next]_vars

---------------------------------------------------------------------------
(* Properties *)

Destroyed == Listener("window", "resize") \notin listeners

attractive(fs) == Cardinality({i \in 1..Len(fs) : fs[i].direction = 1})
repulsive(fs) == Cardinality({i \in 1..Len(fs) : fs[i].direction = -1})

\* C1: in a state with hit = true a pointer-up leaves the ball's velocity, the
\* force collection and the hit flag unchanged and emits no force-count
\* notification.
C1_ModeGating ==
    [][(hit /\ last'[1] = "up") =>
         /\ ball'.vx = ball.vx
         /\ ball'.vy = ball.vy
         /\ forces' = forces
         /\ hit' = hit
         /\ emitted' = <<>>]_vars

\* a pointer-up has run in motion mode on a secondary-button gesture that
\* holds a force
C1_Witness ==
    /\ last[1] = "up"
    /\ hit
    /\ mouseStart # <<>>
    /\ mouseStart[1].button = 2
    /\ mouseCurrent[1].force # <<>>

\* C2: once destroy() has returned no tick runs and no frame is pending,
\* whatever is called afterwards, a second destroy() included.
C2_NoTickAfterDestroy ==
    [][/\ last' = <<"destroy">> => pending' = {}
       /\ Destroyed => (last' # <<"tick">> /\ pending' = {})]_vars

\* destroy() has run on a scene that had ticked, and an operation followed it
C2_Witness ==
    /\ Destroyed
    /\ previousTime # <<>>
    /\ frame # <<>>
    /\ last[1] = "addForce"

\* C3: after destroy() none of the listeners the constructor registered
\* remains registered.
C3_AllListenersRemoved ==
    last = <<"destroy">> => listeners = {}

\* the step shows the win message and navigates
winDeclared ==
    /\ alerts' = Append(alerts, "Congratulations!")
    /\ Len(gotoCalls') = Len(gotoCalls) + 1

\* the ball centre lies within hole.radius - ball.radius of the hole centre
\* (world coordinates, squared)
withinHole ==
    /\ ball.x # NaN
    /\ ball.y # NaN
    /\ hole.radius - ball.radius >= 0
    /\ (ball.x[1] - hole.x) * (ball.x[1] - hole.x)
         + (ball.y[1] - hole.y) * (ball.y[1] - hole.y)
       <= (hole.radius - ball.radius) * (hole.radius - ball.radius)

onThreshold ==
    /\ ball.x # NaN
    /\ ball.y # NaN
    /\ (ball.x[1] - hole.x) * (ball.x[1] - hole.x)
         + (ball.y[1] - hole.y) * (ball.y[1] - hole.y)
       = (hole.radius - ball.radius) * (hole.radius - ball.radius)

\* C4: a tick declares the level won exactly when hit = true and the ball
\* centre is within hole.radius - ball.radius of the hole centre, the
\* threshold included; a tick with hit = false never declares it won.
C4_WinDetection ==
    [][last' = <<"tick">> =>
         /\ winDeclared <=> (hit /\ withinHole)
         /\ ~winDeclared => UNCHANGED <<alerts, gotoCalls>>]_vars

\* a tick has declared the win with the ball exactly on the threshold
C4_Witness ==
    /\ last = <<"tick">>
    /\ hit
    /\ onThreshold
    /\ alerts = <<"Congratulations!">>

forceRemoved == Len(forces') = Len(forces) - 1

\* the forces without the i-th
without(fs, i) == [j \in 1..(Len(fs) - 1) |-> IF j < i THEN fs[j] ELSE fs[j + 1]]

\* the screen position of force f lies within FORCE_RADIUS of m (squared)
withinForce(m, f) ==
    (canvas.width \div 2 + f.x + center.x - m.x)
        * (canvas.width \div 2 + f.x + center.x - m.x)
      + (canvas.height \div 2 - f.y - center.y - m.y)
        * (canvas.height \div 2 - f.y - center.y - m.y)
    <= FORCE_RADIUS * FORCE_RADIUS

\* C5 as claimed: in setup mode a pointer-up removes a force exactly when the
\* gesture used the secondary button, the release position equals the press
\* position and a force was associated with the gesture at pointer-down.
C5_RemovalIffNoDrag ==
    [][(~hit /\ last'[1] = "up") =>
         (forceRemoved <=>
            /\ mouseStart # <<>>
            /\ mouseStart[1].button = 2
            /\ pointer(last'[2]).x = mouseStart[1].x
            /\ pointer(last'[2]).y = mouseStart[1].y
            /\ mouseCurrent[1].force # <<>>)]_vars

\* the gesture of the pointer-up at offset o removes the force it holds
removes(o) ==
    /\ mouseStart # <<>>
    /\ mouseStart[1].button = 2
    /\ mouseCurrent[1].force # <<>>
    /\ mouseCurrent[1].force[1].idx > 0
    /\ withinForce(pointer(o), forces[mouseCurrent[1].force[1].idx])

\* C5, amended: in setup mode a pointer-up removes a force exactly when the
\* gesture used the secondary button, a force was associated with the gesture
\* at pointer-down and is still in the collection, and the release position
\* lies within FORCE_RADIUS of that force; then exactly that force is removed
\* and one notification is emitted, otherwise the collection is unchanged and
\* nothing is emitted.
C5_RemovalIffOnForce ==
    [][(~hit /\ last'[1] = "up") =>
         /\ forceRemoved <=> removes(last'[2])
         /\ removes(last'[2]) =>
              /\ forces' = without(forces, mouseCurrent[1].force[1].idx)
              /\ emitted' = <<<<attractive(forces'), repulsive(forces')>>>>
         /\ ~removes(last'[2]) => (forces' = forces /\ emitted' = <<>>)]_vars

\* a secondary-button pointer-up in setup mode, released off the press
\* position (600, 400), has removed a force
C5_Witness ==
    /\ last = <<"up", <<616, 412>>>>
    /\ ~hit
    /\ emitted # <<>>
    /\ Len(forces) = 2

\* the forces the level authors: +1 at each default-gravity position, then -1
\* at each default-antigravity position
authoredForces ==
    [i \in 1..(Len(DefaultGravity) + Len(DefaultAntigravity)) |->
        IF i <= Len(DefaultGravity)
        THEN [x |-> DefaultGravity[i].x, y |-> DefaultGravity[i].y, direction |-> 1]
        ELSE [x |-> DefaultAntigravity[i - Len(DefaultGravity)].x,
              y |-> DefaultAntigravity[i - Len(DefaultGravity)].y,
              direction |-> -1]]

\* C6: clear() leaves exactly the level's authored forces, direction +1 at the
\* default-gravity positions and -1 at the default-antigravity positions, and
\* reports (number of default attractive, number of default repulsive).
C6_ClearRestoresDefaults ==
    last = <<"clear">> =>
        /\ forces = authoredForces
        /\ emitted = <<<<Len(DefaultGravity), Len(DefaultAntigravity)>>>>

\* C7: addForce, a force removal and clear() each emit exactly one notification
\* (number of +1 forces, number of -1 forces) of the collection they leave;
\* a pointer-move (drag or pan) and reset() emit none; from 2 attractive and 1
\* repulsive forces the removal of the repulsive one emits (2, 0), and adding
\* an attractive force then emits (3, 0).
C7_ForceCountNotification ==
    [][/\ (\/ last'[1] = "addForce"
           \/ last' = <<"clear">>
           \/ (last'[1] = "up" /\ forceRemoved)) =>
             /\ emitted' = <<<<attractive(forces'), repulsive(forces')>>>>
             /\ attractive(forces') + repulsive(forces') = Len(forces')
       /\ (\/ last' = <<"move">>
           \/ last' = <<"reset">>
           \/ last' = <<"key", " ">>) => emitted' = <<>>
       /\ (/\ last'[1] = "up"
           /\ attractive(forces) = 2 /\ repulsive(forces) = 1
           /\ attractive(forces') = 2 /\ repulsive(forces') = 0) =>
             emitted' = <<<<2, 0>>>>
       /\ (/\ last'[1] = "addForce"
           /\ attractive(forces) = 2 /\ repulsive(forces) = 0
           /\ forces'[Len(forces')].direction = 1) =>
             emitted' = <<<<3, 0>>>>]_vars

\* after a removal has left 2 attractive forces, addForce has added a third
C7_Witness ==
    /\ last[1] = "addForce"
    /\ emitted = <<<<3, 0>>>>
    /\ forces[3].direction = 1

\* C8: reset(), and the reset key, set hit = false and the ball to the level's
\* start position and radius with velocity (0, 0), and leave the forces, the
\* pan centre, mouseStart, mouseCurrent and the frame handle unchanged.
C8_ResetOnlyBall ==
    [][(last' = <<"reset">> \/ last' = <<"key", " ">>) =>
         /\ hit' = FALSE
         /\ ball' = [x |-> <<LevelBall.x>>, y |-> <<LevelBall.y>>,
                     radius |-> LevelBall.radius, vx |-> <<0>>, vy |-> <<0>>]
         /\ UNCHANGED <<forces, center, mouseStart, mouseCurrent, frame>>]_vars

\* the reset key has been pressed during a gesture, with the forces edited
C8_Witness ==
    /\ last = <<"key", " ">>
    /\ mouseStart # <<>>
    /\ forces # clearForces
    /\ frame # <<>>

\* C9: the ball's velocity components are finite in every reachable state.
C9_VelocityFinite ==
    ball.vx # NaN /\ ball.vy # NaN

\* the pointer-up that starts a shot: setup mode before, motion mode after
shotStarted == ~hit /\ hit'

\* the release position of that pointer-up and the ball's screen position
shotFrom == mousePoint(pointer(last'[2]))
shotTo == normalizePoint(ballPoint, canvas, center)
pullX == shotTo.x[1] - shotFrom.x[1]
pullY == shotTo.y[1] - shotFrom.y[1]
pullSquared == pullX * pullX + pullY * pullY
abs(n) == IF n < 0 THEN -n ELSE n

\* C10: when a pointer-up starts a shot the launch speed is
\* min(d / MAX_DISTANCE, 1) * MAX_VELOCITY, d the distance from the release
\* position to the ball's screen position: d >= 800 gives speed 500, d = 400
\* gives 250, d = 0 gives 0; the velocity points from the pointer to the ball.
\* Speeds are compared up to the rounding of the integer arithmetic (the
\* square roots round up, the quotients truncate), exactly on the x axis.
C10_ShotSpeed ==
    [][shotStarted =>
         /\ ball'.vx # NaN
         /\ ball'.vy # NaN
         /\ LET vx == ball'.vx[1]
                vy == ball'.vy[1]
                speed == sqrtInt(vx * vx + vy * vy)
                d == sqrtInt(pullSquared)
            IN  /\ IF d >= MAX_DISTANCE
                   THEN abs(speed - MAX_VELOCITY) <= 2
                   ELSE abs(MAX_DISTANCE * speed - MAX_VELOCITY * d)
                            <= 4 * MAX_DISTANCE
                /\ (pullY = 0 /\ abs(pullX) >= MAX_DISTANCE) =>
                       (abs(vx) = MAX_VELOCITY /\ vy = 0)
                /\ (pullY = 0 /\ 2 * abs(pullX) = MAX_DISTANCE) =>
                       (2 * abs(vx) = MAX_VELOCITY /\ vy = 0)
                /\ pullSquared = 0 => (vx = 0 /\ vy = 0)
                /\ vx * pullX >= 0
                /\ vy * pullY >= 0
                /\ abs(vx * pullY - vy * pullX) <= abs(pullX) + abs(pullY)]_vars

---------------------------------------------------------------------------
(* Forces in a motion-mode tick *)

\* the squared separation of the ball and force f; the pan cancels
separationSquared(f) ==
    (ball.x[1] - f.x) * (ball.x[1] - f.x) + (ball.y[1] - f.y) * (ball.y[1] - f.y)

\* direction * 100000000 / r^2 limited to [-5000, 5000]; r = 0 gives the
\* limit of the force's sign
clampedStrength(direction, r2) ==
    IF r2 = 0 THEN direction * 5000
    ELSE IF 100000000 \div r2 >= 5000 THEN direction * 5000
    ELSE direction * (100000000 \div r2)

\* a tick in motion mode that does not declare the win
motionTick == last' = <<"tick">> /\ hit /\ ~winDeclared

\* the ball's velocity after the wall loop of the tick
postBounce == bounceWalls(ball, walls, canvas, center)

\* C11: in a motion-mode tick the magnitude handed to the decomposition for
\* each force is direction * 100000000 / r^2 clamped to [-5000, 5000], and
\* the velocity the forces add in the tick is at most 5000 * delta per force
\* and component.
C11_ForceClamp ==
    [][(motionTick /\ ball.x # NaN /\ ball.y # NaN) =>
         /\ \A i \in 1..Len(forces) :
              LET m == forceMagnitude(forces[i].direction,
                           Num(separationSquared(forces[i])))
              IN  /\ m = Num(clampedStrength(forces[i].direction,
                                             separationSquared(forces[i])))
                  /\ abs(m[1]) <= 5000
         /\ (ball'.vx # NaN /\ ball'.vy # NaN) =>
              LET limit == Len(forces) * 5 * deltaOf(previousTime'[1])
              IN  /\ abs(ball'.vx[1] - postBounce.vx[1]) <= limit
                  /\ abs(ball'.vy[1] - postBounce.vy[1]) <= limit]_vars

\* a motion-mode tick with delta > 0 has applied a clamped acceleration: the
\* ball, launched at no more than MAX_VELOCITY, has a finite velocity that
\* only an acceleration near the limit can have given it
C11_Witness ==
    /\ last = <<"tick">>
    /\ hit
    /\ alerts = <<>>
    /\ previousTime[1] >= 2 * TickStep
    /\ ball.vx # NaN
    /\ ball.vy # NaN
    /\ abs(ball.vx[1]) + abs(ball.vy[1]) >= 2000

---------------------------------------------------------------------------
(* addForce over pixel ratios, surface sizes and pan centres *)

PlaceRatios == {1, 2}
PlaceSizes == {[width |-> 1600, height |-> 800], [width |-> 1280, height |-> 720],
               [width |-> 800, height |-> 600]}
PlaceCenters == {[x |-> cx, y |-> cy] : cx \in {-16, 0, 16}, cy \in {-12, 0, 12}}
PlacePositions == {<<0, 0>>, <<970, 370>>, <<123, 456>>}

\* a scene in either mode, panned, some of its forces removed
InitPlace ==
    /\ pixelRatio \in PlaceRatios
    /\ canvas \in PlaceSizes
    /\ center \in PlaceCenters
    /\ hit \in BOOLEAN
    /\ forces \in {SubSeq(clearForces, 1, n) : n \in 0..Len(clearForces)}
    /\ cursor = ""
    /\ levelId = 1
    /\ previousTime = <<>>
    /\ frame = <<1>>
    /\ mouseStart = <<>>
    /\ mouseCurrent = <<>>
    /\ ball = resetBall
    /\ listeners = registeredListeners
    /\ pending = {1}
    /\ nextHandle = 2
    /\ emitted = <<>>
    /\ alerts = <<>>
    /\ gotoCalls = <<>>
    /\ navigation = "none"
    /\ last = <<"constructor">>

NextPlace == \E p \in PlacePositions, d \in Directions : addForce(p, d)

SpecPlace == InitPlace /\ [][NextPlace]_vars

\* C12: addForce(position, direction) appends exactly one force, of the given
\* direction, in either mode, leaves the existing forces and the mode
\* unchanged, and the new force normalizes to the screen point
\* (position.x * pixelRatio + FORCE_RADIUS, position.y * pixelRatio + FORCE_RADIUS).
C12_AddForceInverse ==
    [][last'[1] = "addForce" =>
         LET position == last'[2]
             added == forces'[Len(forces')]
         IN  /\ Len(forces') = Len(forces) + 1
             /\ SubSeq(forces', 1, Len(forces)) = forces
             /\ added.direction = last'[3]
             /\ hit' = hit
             /\ normalizePoint(forcePoint(added), canvas, center)
                  = Point(position[1] * pixelRatio + 30,
                          position[2] * pixelRatio + 30)]_vars

\* addForce has run in motion mode on a panned scene with pixel ratio 2 and a
\* surface that is not the default one, adding a repulsive force to others
C12_Witness ==
    /\ last[1] = "addForce"
    /\ last[3] = -1
    /\ hit
    /\ center.x # 0
    /\ center.y # 0
    /\ pixelRatio = 2
    /\ canvas.width = 1280
    /\ Len(forces) = 3

---------------------------------------------------------------------------
(* The scene constructed with any level of the game *)

InitLevels ==
    /\ levelId \in 1..NumLevels
    /\ pixelRatio \in PixelRatios
    /\ canvas \in CanvasSizes
    /\ cursor = ""
    /\ previousTime = <<>>
    /\ frame = <<1>>
    /\ center = [x |-> 0, y |-> 0]
    /\ mouseStart = <<>>
    /\ mouseCurrent = <<>>
    /\ hit = FALSE
    /\ forces = clearForces
    /\ ball = resetBall
    /\ listeners = registeredListeners
    /\ pending = {1}
    /\ nextHandle = 2
    /\ emitted = dispatchForces(clearForces)
    /\ alerts = <<>>
    /\ gotoCalls = <<>>
    /\ navigation = "none"
    /\ last = <<"constructor">>

\* the operations a game played to its win uses: frames, presses and
\* releases, reset(), clear(), destroy(), and the navigation's outcome
NextLevels ==
    \/ \E h \in pending, d \in Deltas :
          tick(h, IF previousTime = <<>> THEN d ELSE previousTime[1] + d)
    \/ gotoFulfilled
    \/ gotoRejected
    \/ \E o \in DownOffsets, b \in Buttons : down(o, b)
    \/ \E o \in UpOffsets : up(o)
    \/ reset
    \/ clear
    \/ destroy

SpecLevels == InitLevels /\ [][NextLevels]_vars

\* C13: a tick that declares the win requests navigation once, to the next
\* level when the level is not the last and to the level index when it is;
\* navigation is requested at most once in the scene's life; a failed
\* navigation is reported as a message and changes nothing of the scene.
C13_WinTarget ==
    [][/\ (last' = <<"tick">> /\ winDeclared) =>
             /\ gotoCalls' = Append(gotoCalls,
                    IF levelId = NumLevels THEN <<"/levels">>
                    ELSE <<"/levels", levelId + 1>>)
             /\ navigation' = "pending"
       /\ Len(gotoCalls') <= 1
       /\ gotoCalls' # gotoCalls => (last' = <<"tick">> /\ winDeclared)
       /\ last' = <<"gotoRejected">> =>
             /\ navigation = "pending"
             /\ alerts' = Append(alerts, "message")
             /\ UNCHANGED <<pixelRatio, canvas, cursor, levelId, previousTime,
                            frame, center, mouseStart, mouseCurrent, hit,
                            forces, ball, listeners, pending, gotoCalls>>]_vars

\* the last level has been won and the navigation to the level index failed
C13_Witness ==
    /\ levelId = NumLevels
    /\ gotoCalls = <<<<"/levels">>>>
    /\ navigation = "rejected"
    /\ alerts = <<"Congratulations!", "message">>

---------------------------------------------------------------------------
(* Scheduling *)

won == alerts # <<>>

\* C14: until destroy() at most one frame callback is pending and the frame
\* handle is non-null exactly when one is, naming it; a tick that does not
\* declare the win requests exactly one new frame, in either mode; a tick that
\* declares it requests none, and afterwards no tick runs and no frame is
\* pending, whatever is called.
C14_TickScheduling ==
    [][/\ ~Destroyed =>
             /\ Cardinality(pending) <= 1
             /\ frame # <<>> <=> pending # {}
             /\ frame # <<>> => pending = {frame[1]}
       /\ (last' = <<"tick">> /\ ~winDeclared) =>
             /\ Cardinality(pending') = 1
             /\ pending' \cap pending = {}
             /\ frame' # <<>>
             /\ pending' = {frame'[1]}
       /\ (last' = <<"tick">> /\ winDeclared) =>
             (pending' = {} /\ frame' = <<>>)
       /\ won => (last' # <<"tick">> /\ pending' = {} /\ frame' = <<>>)]_vars

\* clear() has been called after a win, on a scene not destroyed
C14_Witness ==
    /\ won
    /\ last = <<"clear">>
    /\ ~Destroyed
    /\ ~hit
    /\ pending = {}

---------------------------------------------------------------------------
(* Gestures *)

\* C15: after any pointer-up, in either mode, mouseStart and mouseCurrent are
\* both null.
C15_UpReturnsToIdle ==
    last[1] = "up" => (mouseStart = <<>> /\ mouseCurrent = <<>>)

\* C16: a pointer-move that directly follows a pointer-up, or that follows a
\* secondary-button pointer-down, moves no force and leaves the pan centre
\* unchanged, in either mode.
C16_MoveOnlyWhilePrimaryHeld ==
    [][last' = <<"move">> =>
         /\ last[1] = "up" => UNCHANGED <<forces, center>>
         /\ (mouseStart # <<>> /\ mouseStart[1].button = 2) =>
                UNCHANGED <<forces, center>>]_vars

---------------------------------------------------------------------------
(* Setup mode *)

\* C17: in every state with hit = false the ball is at the level's start
\* position with velocity (0, 0), and a tick in setup mode leaves the ball
\* unchanged.
C17_SetupBallStill ==
    [][/\ ~hit =>
             /\ ball.x = <<LevelBall.x>>
             /\ ball.y = <<LevelBall.y>>
             /\ ball.vx = <<0>>
             /\ ball.vy = <<0>>
       /\ (last' = <<"tick">> /\ ~hit) => ball' = ball]_vars

\* a tick with delta > 0 has run in setup mode, forces present, during a
\* gesture
C17_Witness ==
    /\ last = <<"tick">>
    /\ ~hit
    /\ previousTime[1] >= 3 * TickStep
    /\ Len(forces) = 3
    /\ mouseStart # <<>>

---------------------------------------------------------------------------
(* Ticks of a scene in motion, over ball positions, velocities, forces and  *)
(* pan centres                                                             *)

\* the level's start and hole, a point 100 from the force at (0, 300), a
\* point in contact with the first wall only, and a point in contact with
\* the first wall's face and the second wall's corner
TickBalls == {[x |-> 200, y |-> 0], [x |-> 331, y |-> -327],
              [x |-> 100, y |-> 300], [x |-> 445, y |-> -300],
              [x |-> 450, y |-> -410]}
TickVelocities == {<<300, 100>>, <<-200, 50>>, <<0, -400>>, <<0, 0>>}
TickForces == {clearForces,
               <<>>,
               <<[x |-> 0, y |-> 300, direction |-> -1]>>,
               <<[x |-> 0, y |-> 300, direction |-> 1]>>,
               <<[x |-> 400, y |-> -400, direction |-> 1],
                 [x |-> 500, y |-> -380, direction |-> -1]>>}
TickCenters == {[x |-> 0, y |-> 0], [x |-> 16, y |-> -12]}

InitTick ==
    /\ ball \in {[x |-> Num(b.x), y |-> Num(b.y), radius |-> LevelBall.radius,
                  vx |-> Num(v[1]), vy |-> Num(v[2])] :
                    b \in TickBalls, v \in TickVelocities}
    /\ forces \in TickForces
    /\ center \in TickCenters
    /\ hit = TRUE
    /\ previousTime = <<TickStep>>
    /\ pixelRatio \in PixelRatios
    /\ canvas \in CanvasSizes
    /\ cursor = ""
    /\ levelId = 1
    /\ frame = <<2>>
    /\ mouseStart = <<>>
    /\ mouseCurrent = <<>>
    /\ listeners = registeredListeners
    /\ pending = {2}
    /\ nextHandle = 3
    /\ emitted = <<>>
    /\ alerts = <<>>
    /\ gotoCalls = <<>>
    /\ navigation = "none"
    /\ last = <<"tick">>

NextTick == \E h \in pending, d \in Deltas : tick(h, previousTime[1] + d)

SpecTick == InitTick /\ [][NextTick]_vars

\* the ball after the response to wall w, if the ball touches it
afterWall(b, w) ==
    LET angle == collision(normalizePoint([x |-> b.x, y |-> b.y], canvas, center),
                           b.radius, normalizeShape(w, canvas, center))
    IN  IF angle = <<>> THEN b ELSE bounce(b, angle[1])

\* C18: a motion-mode tick that does not declare the win responds to the
\* walls first, in their order, then adds each force's acceleration * delta
\* to the velocity the walls left, and integrates the position last, with the
\* velocity that results; a tick that declares the win changes neither
\* velocity nor position.
C18_TickOrder ==
    [][(last' = <<"tick">> /\ hit) =>
         IF winDeclared THEN ball' = ball
         ELSE LET delta == deltaOf(previousTime'[1])
                  bounced == afterWall(afterWall(ball, walls[1]), walls[2])
                  pushed == applyForces(bounced, forces, delta, canvas, center)
              IN  /\ ball'.vx = pushed.vx
                  /\ ball'.vy = pushed.vy
                  /\ ball'.x = add(ball.x, timesDelta(ball'.vx, delta))
                  /\ ball'.y = sub(ball.y, timesDelta(ball'.vy, delta))]_vars

\* a tick with delta > 0 has run on the ball that touched both walls, at
\* (450, -410), with forces present: integrating back gives that position
C18_Witness ==
    /\ last = <<"tick">>
    /\ previousTime = <<2 * TickStep>>
    /\ forces # <<>>
    /\ ball.vx # NaN
    /\ ball.vy # NaN
    /\ ball.vx # <<0>>
    /\ ball.x = add(Num(450), timesDelta(ball.vx, TickStep))
    /\ ball.y = sub(Num(-410), timesDelta(ball.vy, TickStep))

\* a motion-mode tick with delta > 0 in which a single force, off the ball,
\* acts on a ball that touches no wall
oneForceTick ==
    /\ motionTick
    /\ deltaOf(previousTime'[1]) > 0
    /\ Len(forces) = 1
    /\ ball.x # NaN /\ ball.y # NaN /\ ball.vx # NaN /\ ball.vy # NaN
    /\ separationSquared(forces[1]) > 0
    /\ postBounce = ball

\* the component, along the direction from the ball to the force, of the
\* velocity the tick adds; vy is counted downwards (ball.y -= vy * delta)
towardForce ==
    (ball'.vx[1] - ball.vx[1]) * (forces[1].x - ball.x[1])
      - (ball'.vy[1] - ball.vy[1]) * (forces[1].y - ball.y[1])

\* C19: in a motion-mode tick with delta > 0 and non-zero separation a force
\* of direction +1 adds a velocity that points from the ball toward the force,
\* and a force of direction -1 one that points away from it.
C19_ForceSign ==
    [][oneForceTick =>
         /\ forces[1].direction = 1 => towardForce > 0
         /\ forces[1].direction = -1 => towardForce < 0]_vars

---------------------------------------------------------------------------
(* The hit flag *)

\* the pointer-up of the step releases a primary-button gesture at its press
\* position
primaryClick ==
    /\ last'[1] = "up"
    /\ mouseStart # <<>>
    /\ mouseStart[1].button = 0
    /\ pointer(last'[2]).x = mouseStart[1].x
    /\ pointer(last'[2]).y = mouseStart[1].y

\* C20: hit becomes true only in a pointer-up that releases a primary-button
\* gesture at its press position, and every such pointer-up in setup mode
\* makes it true, also when the press landed on a force; hit becomes false
\* only through reset() (the reset key calls it) or clear(); ticks,
\* pointer-down, pointer-move, addForce and force removal leave it unchanged.
C20_HitTransitions ==
    [][/\ (~hit /\ hit') => primaryClick
       /\ (~hit /\ primaryClick) => hit'
       /\ (hit /\ ~hit') => (\/ last' = <<"reset">>
                             \/ last' = <<"key", " ">>
                             \/ last' = <<"clear">>)
       /\ (\/ last' = <<"tick">>
           \/ last' = <<"down">>
           \/ last' = <<"move">>
           \/ last'[1] = "addForce"
           \/ (last'[1] = "up" /\ forceRemoved)) => hit' = hit]_vars

\* the shot from (600, 400), pressed on the force at world (-200, 0), has
\* been taken: the ball has its launch velocity and no force has moved
C20_Witness ==
    /\ hit
    /\ last = <<"up", <<600, 400>>>>
    /\ forces = clearForces
    /\ center = [x |-> 0, y |-> 0]
    /\ previousTime = <<>>
    /\ ball.vx = <<250>>
    /\ mouseStart = <<>>

---------------------------------------------------------------------------
(* Ticks of a scene in motion whose view is panned between them *)

InitPan == InitTick /\ center = [x |-> 0, y |-> 0]

NextPan ==
    \/ NextTick
    \/ \E o \in DownOffsets, b \in Buttons : down(o, b)
    \/ \E o \in MoveOffsets : move(o)
    \/ \E o \in UpOffsets : up(o)

SpecPan == InitPan /\ [][NextPan]_vars

\* the pan centres of the scenes the tick is compared with
OtherCenters == {[x |-> 0, y |-> 0], [x |-> 16, y |-> -12],
                 [x |-> -300, y |-> 200]}

\* the win test of a scene that differs from this one in its pan centre c
inHoleAt(c) ==
    leq(distance(normalizePoint(ballPoint, canvas, c),
                 normalizePoint(Point(hole.x, hole.y), canvas, c)),
        Num(hole.radius - ball.radius))

\* the contact of the ball with wall w in such a scene
contactAt(w, c) ==
    collision(normalizePoint(ballPoint, canvas, c), ball.radius,
              normalizeShape(w, canvas, c))

\* C21: a motion-mode tick decides the win, finds the wall contacts and
\* leaves the ball's velocity and world position as the same tick does in a
\* scene that agrees on ball, hole, walls and forces and differs in the pan
\* centre; a step that changes the pan centre leaves the ball and the forces
\* as they were, so panning between ticks does not change the trajectory.
C21_PanIndependence ==
    [][/\ center' # center => (ball' = ball /\ forces' = forces)
       /\ (last' = <<"tick">> /\ hit) =>
         \A c \in OtherCenters :
            /\ winDeclared <=> inHoleAt(c)
            /\ \A i \in 1..Len(walls) :
                  contactAt(walls[i], c) = contactAt(walls[i], center)
            /\ ~winDeclared =>
                  ball' = integrate(
                              applyForces(bounceWalls(ball, walls, canvas, c),
                                          forces, deltaOf(previousTime'[1]),
                                          canvas, c),
                              deltaOf(previousTime'[1]))]_vars

\* two ticks have run in motion mode, forces present, on a view that a
\* primary-button drag off every force has panned
C21_Witness ==
    /\ last = <<"tick">>
    /\ previousTime = <<3 * TickStep>>
    /\ center = [x |-> 16, y |-> -12]
    /\ forces # <<>>
    /\ alerts = <<>>
    /\ ball.vx # NaN
    /\ ball.vx # <<0>>

====
